---------------------------- MODULE Spec2Model ----------------------------
(***************************************************************************)
(* The in-memory order store of the storefront backend (src/main.go):      *)
(* the shared sequence `orders`, the counter `nextOrderID`, the lock       *)
(* `ordersMu`, and the handlers ordersHandler, hideOrderHandler and        *)
(* orderByIDHandler.                                                       *)
(*                                                                         *)
(* Two specifications share the store:                                     *)
(*   Spec      one request at a time, one action per handler;              *)
(*   ConcSpec  several requests in flight, one action per statement that   *)
(*             reads or writes shared state, with the lock explicit.       *)
(***************************************************************************)
EXTENDS Integers, Sequences, FiniteSets, TLC

VARIABLES
    orders,        \* var orders []Order
    nextOrderID,   \* var nextOrderID int
    now,           \* the server clock that time.Now() reads
    req,           \* the request handled last (Spec)
    resp,          \* the response written to it (Spec)
    created,       \* history: ids handed out by successful Creates, in commit order
    deleted,       \* history: ids whose Delete answered 204
    hideAgain,     \* history: the last two requests were Hide with the same id parameter
    mu,            \* ordersMu: the set of requests holding it, empty when free (ConcSpec)
    pc,            \* where each in-flight request stands (ConcSpec)
    loc            \* the locals of each in-flight request (ConcSpec)

vars == <<orders, nextOrderID, now, req, resp, created, deleted, hideAgain,
          mu, pc, loc>>

seqVars == <<req, resp, hideAgain>>
concVars == <<mu, pc, loc>>

-----------------------------------------------------------------------------
(* Bounds *)

\* Creates that may commit before the model stops accepting new ones.
MaxOrders == 2

\* Requests in flight at once in ConcSpec.
NumProcs == 2

\* Entries in a directory the catalog lister reads.
MaxEntries == 3

-----------------------------------------------------------------------------
(* Strings are sequences of characters, so that trimming and parsing are   *)
(* computed and not assumed.                                               *)

Space == {" ", "\t", "\n", "\r"}

Digits == <<"0", "1", "2", "3", "4", "5", "6", "7", "8", "9">>

IsDigit(c) == \E d \in 1..10 : Digits[d] = c

DigitVal(c) == (CHOOSE d \in 1..10 : Digits[d] = c) - 1

RECURSIVE TrimLeft(_)
TrimLeft(s) ==
    IF s # <<>> /\ Head(s) \in Space THEN TrimLeft(Tail(s)) ELSE s

RECURSIVE TrimRight(_)
TrimRight(s) ==
    IF s # <<>> /\ s[Len(s)] \in Space
    THEN TrimRight(SubSeq(s, 1, Len(s) - 1))
    ELSE s

\* strings.TrimSpace
TrimSpace(s) == TrimRight(TrimLeft(s))

RECURSIVE ParseDigits(_, _)
ParseDigits(s, acc) ==
    IF s = <<>> THEN acc
    ELSE ParseDigits(Tail(s), acc * 10 + DigitVal(Head(s)))

\* a faulty Atoi: the error is dropped, the value is the one Atoi returns
AtoiIgnoringError(s) ==
    LET signed == s # <<>> /\ Head(s) \in {"+", "-"}
        body   == IF signed THEN Tail(s) ELSE s
    IN  IF body = <<>> \/ \E i \in 1..Len(body) : ~IsDigit(body[i])
        THEN [val |-> 0, err |-> FALSE]
        ELSE [val |-> IF signed /\ Head(s) = "-"
                      THEN 0 - ParseDigits(body, 0)
                      ELSE ParseDigits(body, 0),
              err |-> FALSE]

\* strconv.Atoi on a short numeral: an optional sign, then decimal digits
\* only; anything else is a syntax error, and the value returned with an
\* error is 0.
Atoi(s) ==
    LET signed == s # <<>> /\ Head(s) \in {"+", "-"}
        body   == IF signed THEN Tail(s) ELSE s
    IN  IF body = <<>> \/ \E i \in 1..Len(body) : ~IsDigit(body[i])
        THEN [val |-> 0, err |-> TRUE]
        ELSE [val |-> IF signed /\ Head(s) = "-"
                      THEN 0 - ParseDigits(body, 0)
                      ELSE ParseDigits(body, 0),
              err |-> FALSE]

RECURSIVE Itoa(_)
Itoa(n) ==
    IF n < 10 THEN <<Digits[n + 1]>>
    ELSE Itoa(n \div 10) \o <<Digits[(n % 10) + 1]>>

-----------------------------------------------------------------------------
(* Data *)

\* A Go slice value: nil, or a (possibly empty) sequence of elements.
NilSlice == [isNil |-> TRUE, elems |-> <<>>]

MakeSlice(s) == [isNil |-> FALSE, elems |-> s]

\* type Product
Product(id, url) == [id |-> id, url |-> url]

\* type Order
Order(id, username, items, createdAt, hidden) ==
    [id |-> id, username |-> username, items |-> items,
     created_at |-> createdAt, hidden |-> hidden]

\* var in Order: Go's zero value
ZeroOrder == Order(0, <<>>, NilSlice, 0, FALSE)

Admin == <<"a", "d", "m", "i", "n">>

IDs(s) == {s[i].id : i \in 1..Len(s)}

-----------------------------------------------------------------------------
(* Request bodies: a JSON document is either unparsable or an object whose *)
(* members are JSON values; a member the document does not carry is Absent.*)

JAbsent == [t |-> "absent", v |-> 0]
JNull == [t |-> "null", v |-> 0]
JStr(s) == [t |-> "string", v |-> s]
JNum(n) == [t |-> "number", v |-> n]
JBool(b) == [t |-> "bool", v |-> b]
JArr(s) == [t |-> "array", v |-> s]

InvalidJSON == [t |-> "invalid", username |-> JAbsent, id |-> JAbsent,
                items |-> JAbsent, hidden |-> JAbsent]

JObject(username, id, items, hidden) ==
    [t |-> "object", username |-> username, id |-> id,
     items |-> items, hidden |-> hidden]

\* encoding/json into one field of `var in Order`: an absent member and a
\* null leave the zero value, a value of the field's JSON type is stored,
\* a value of another type is an error.
DecodeField(jv, type, zero) ==
    IF jv.t \in {"absent", "null"} THEN [val |-> zero, err |-> FALSE]
    ELSE IF jv.t = type THEN [val |-> jv.v, err |-> FALSE]
    ELSE [val |-> zero, err |-> TRUE]

\* json.NewDecoder(r.Body).Decode(&in)
Decode(body) ==
    LET u  == DecodeField(body.username, "string", <<>>)
        i  == DecodeField(body.id, "number", 0)
        h  == DecodeField(body.hidden, "bool", FALSE)
        it == IF body.items.t = "array"
              THEN [val |-> MakeSlice(body.items.v), err |-> FALSE]
              ELSE DecodeField(body.items, "array", NilSlice)
    IN  IF body.t # "object" \/ u.err \/ i.err \/ h.err \/ it.err
        THEN [err |-> TRUE, val |-> ZeroOrder]
        ELSE [err |-> FALSE, val |-> Order(i.val, u.val, it.val, 0, h.val)]

-----------------------------------------------------------------------------
(* The statements of the handlers, as functions of the values they read.   *)

\* Go's idx := -1
NotFound == 0

\* a faulty FindIndex: idx starts at the first element instead of "none"
FindIndexFromFirst(s, id) ==
    IF \E i \in 1..Len(s) : s[i].id = id
    THEN CHOOSE i \in 1..Len(s) :
            /\ s[i].id = id
            /\ \A j \in 1..(i - 1) : s[j].id # id
    ELSE 1

\* for i, o := range orders { if o.ID == id { idx = i; break } }
FindIndex(s, id) ==
    IF \E i \in 1..Len(s) : s[i].id = id
    THEN CHOOSE i \in 1..Len(s) :
            /\ s[i].id = id
            /\ \A j \in 1..(i - 1) : s[j].id # id
    ELSE NotFound

\* a faulty RemoveAt: the tail after idx is not appended back
RemoveFrom(s, idx) == SubSeq(s, 1, idx - 1)

\* append(orders[:idx], orders[idx+1:]...)
RemoveAt(s, idx) == SubSeq(s, 1, idx - 1) \o SubSeq(s, idx + 1, Len(s))

\* a faulty SetHidden: the flag is flipped instead of set
ToggleHidden(o) == [o EXCEPT !.hidden = ~@]

\* orders[i].Hidden = true
SetHidden(o) == [o EXCEPT !.hidden = TRUE]

\* a faulty HideAt: the loop does not break, and the write runs on
HideAtAndAfter(s, idx) ==
    [i \in 1..Len(s) |-> IF i >= idx THEN SetHidden(s[i]) ELSE s[i]]

\* orders[i].Hidden = true, as a write to element i of the shared sequence
HideAt(s, idx) ==
    [i \in 1..Len(s) |-> IF i = idx THEN SetHidden(s[i]) ELSE s[i]]

\* a faulty HideFirst: with no match, the first order is hidden
HideFirstOrHead(s, id) ==
    IF \E i \in 1..Len(s) : s[i].id = id
    THEN [s EXCEPT ![CHOOSE i \in 1..Len(s) : s[i].id = id].hidden = TRUE]
    ELSE IF s = <<>> THEN s ELSE [s EXCEPT ![1].hidden = TRUE]

\* for i := range orders { if orders[i].ID == id { orders[i].Hidden = true; break } }
HideFirst(s, id) ==
    LET idx == FindIndex(s, id)
    IN  IF idx = NotFound THEN s ELSE HideAt(s, idx)

\* a faulty Visible: the hidden flag is not consulted
VisibleToOwner(o, username) ==
    \/ username = Admin
    \/ o.username = username

\* the test that admits an order to the result of GET
Visible(o, username) ==
    \/ username = Admin
    \/ o.username = username /\ ~o.hidden

\* var result []Order; for _, o := range orders { ... result = append(result, o) }
RECURSIVE Collect(_, _, _)
Collect(s, username, result) ==
    IF s = <<>> THEN result
    ELSE Collect(Tail(s), username,
                 IF Visible(Head(s), username)
                 THEN MakeSlice(Append(result.elems, Head(s)))
                 ELSE result)

\* a faulty NormalizeItems: a nil Items is stored as it is
KeepItems(o) == o

\* if in.Items == nil { in.Items = []Product{} }
NormalizeItems(o) ==
    IF o.items.isNil THEN [o EXCEPT !.items = MakeSlice(<<>>)] ELSE o

\* a faulty NormalizeResult: the result is encoded as the loop left it
KeepResult(result) == result

\* if result == nil { result = []Order{} }; then each element's Items likewise
NormalizeResult(result) ==
    MakeSlice([i \in 1..Len(result.elems) |-> NormalizeItems(result.elems[i])])

\* the result GET encodes
ListResult(s, username) == NormalizeResult(Collect(s, username, NilSlice))

\* a faulty SetID: the id of the request body is kept
SetIDFromBody(in, next) == in

\* in.ID = nextOrderID
SetID(in, next) == [in EXCEPT !.id = next]

\* in.CreatedAt = time.Now()
SetCreatedAt(in, t) == [in EXCEPT !.created_at = t]

\* a faulty LockFree: Lock() returns whether or not the mutex is held
LockAlways(m) == TRUE

\* ordersMu.Lock() returns only once no request holds the mutex
LockFree(m) == m = {}

\* a faulty Increment: the counter is not advanced
IncrementNot(n) == n

\* nextOrderID++
Increment(n) == n + 1

\* a faulty Blank: the username is compared without trimming
BlankUntrimmed(username) == username = <<>>

\* strings.TrimSpace(in.Username) == ""
Blank(username) == TrimSpace(username) = <<>>

-----------------------------------------------------------------------------
(* What clients send *)

P1 == Product(1, "https://zone-out-backend-server.onrender.com/images/Stickers/a.png")

Alice == <<"a">>
PaddedBob == <<" ", "b">>
Bob == <<"b">>
Whitespace == <<" ", "\t">>

\* the username query parameter of GET /api/orders (<<>>: the parameter is missing)
Requesters == {<<>>, Alice, Bob, PaddedBob, Admin}

\* bodies of POST /api/orders
Bodies ==
    {InvalidJSON, JObject(JNum(5), JAbsent, JAbsent, JAbsent)}
    \cup {JObject(u, i, it, h) :
            u \in {JAbsent, JStr(Whitespace), JStr(Alice), JStr(PaddedBob)},
            i \in {JAbsent, JNum(1)},
            it \in {JAbsent, JNull, JArr(<<>>), JArr(<<P1>>)},
            h \in {JAbsent, JBool(TRUE)}}

\* the id query parameter of /api/hideOrder and the path tail of
\* /api/orders/{id} (<<>>: missing)
IdStrs ==
    {<<>>, <<"x">>, <<"-", "1">>} \cup {Itoa(n) : n \in 0..(MaxOrders + 1)}

Methods == {"GET", "POST", "DELETE", "PUT"}

\* a request as the handler that answers it sees it: the route it came in on,
\* the method, the query or path parameter (for POST, the decoded username),
\* whether the body failed to decode, and what the body gave for items
Request(handler, method, arg, badJSON) ==
    [handler |-> handler, route |-> handler, method |-> method, arg |-> arg,
     badJSON |-> badJSON, items |-> "none"]

\* a POST /api/orders whose body is a JSON object
PostRequest(username, body) ==
    [Request("orders", "POST", username, FALSE) EXCEPT !.items = body.items.t]

\* what the handler wrote: the status, and the JSON it encoded (a list of
\* orders for GET, one order for POST) or the text of http.Error
Response(status, list, order, text) ==
    [status |-> status, orders |-> list, order |-> order, text |-> text]

NoOrders == MakeSlice(<<>>)

Procs == 1..NumProcs

\* the locals of one handler invocation
Locals(handler, method, arg, in, id, idx, result, status) ==
    [handler |-> handler, method |-> method, arg |-> arg, in |-> in, id |-> id,
     idx |-> idx, result |-> result, status |-> status]

NoLocals == Locals("none", "GET", <<>>, ZeroOrder, 0, NotFound, NilSlice, 0)

-----------------------------------------------------------------------------
(* Spec: one request at a time *)

Init ==
    /\ orders = <<>>
    /\ nextOrderID = 1
    /\ now = 1
    /\ req = Request("none", "GET", <<>>, FALSE)
    /\ resp = Response(0, NoOrders, ZeroOrder, "")
    /\ created = <<>>
    /\ deleted = {}
    /\ hideAgain = FALSE
    /\ mu = {}
    /\ pc = [p \in Procs |-> "idle"]
    /\ loc = [p \in Procs |-> NoLocals]

\* ordersHandler, case http.MethodGet
OrdersGet(username) ==
    /\ req' = Request("orders", "GET", username, FALSE)
    /\ resp' = Response(200, ListResult(orders, username), ZeroOrder, "")
    /\ hideAgain' = FALSE
    /\ UNCHANGED <<orders, nextOrderID, now, created, deleted>>
    /\ UNCHANGED concVars

\* ordersHandler, case http.MethodPost
OrdersPost(body) ==
    LET dec == Decode(body)
        in  == SetCreatedAt(SetID(NormalizeItems(dec.val), nextOrderID), now)
    IN  /\ hideAgain' = FALSE
        /\ UNCHANGED deleted
        /\ UNCHANGED concVars
        /\ IF dec.err
           THEN /\ req' = Request("orders", "POST", <<>>, TRUE)
                /\ resp' = Response(400, NoOrders, ZeroOrder, "invalid json")
                /\ UNCHANGED <<orders, nextOrderID, now, created>>
           ELSE IF Blank(dec.val.username)
           THEN /\ req' = PostRequest(dec.val.username, body)
                /\ resp' = Response(400, NoOrders, ZeroOrder, "username required")
                /\ UNCHANGED <<orders, nextOrderID, now, created>>
           ELSE /\ nextOrderID <= MaxOrders
                /\ req' = PostRequest(dec.val.username, body)
                /\ orders' = Append(orders, in)
                /\ nextOrderID' = Increment(nextOrderID)
                /\ now' = now + 1
                /\ created' = Append(created, in.id)
                /\ resp' = Response(201, NoOrders, in, "")

\* ordersHandler, default: the query is not looked at
OrdersOther(method, username) ==
    /\ method \notin {"GET", "POST"}
    /\ req' = Request("orders", method, username, FALSE)
    /\ resp' = Response(405, NoOrders, ZeroOrder, "method not allowed")
    /\ hideAgain' = FALSE
    /\ UNCHANGED <<orders, nextOrderID, now, created, deleted>>
    /\ UNCHANGED concVars

\* hideOrderHandler, which does not look at r.Method
HideOrderAs(method, idStr) ==
    LET id == Atoi(idStr).val
    IN  /\ orders' = HideFirst(orders, id)
        /\ req' = Request("hideOrder", method, idStr, FALSE)
        /\ resp' = Response(200, NoOrders, ZeroOrder, "")
        /\ hideAgain' = (req.handler = "hideOrder" /\ req.arg = idStr)
        /\ UNCHANGED <<nextOrderID, now, created, deleted>>
        /\ UNCHANGED concVars

\* hideOrderHandler, called as the front end calls it
HideOrder(idStr) == HideOrderAs("POST", idStr)

\* orderByIDHandler
OrderByID(method, idStr) ==
    LET parsed == Atoi(idStr)
        idx    == FindIndex(orders, parsed.val)
    IN  /\ req' = Request("orderByID", method, idStr, FALSE)
        /\ hideAgain' = FALSE
        /\ UNCHANGED <<nextOrderID, now, created>>
        /\ UNCHANGED concVars
        /\ IF parsed.err
           THEN /\ resp' = Response(400, NoOrders, ZeroOrder, "bad id")
                /\ UNCHANGED <<orders, deleted>>
           ELSE IF method # "DELETE"
           THEN /\ resp' = Response(405, NoOrders, ZeroOrder, "method not allowed")
                /\ UNCHANGED <<orders, deleted>>
           ELSE IF idx = NotFound
           THEN /\ resp' = Response(404, NoOrders, ZeroOrder, "not found")
                /\ UNCHANGED <<orders, deleted>>
           ELSE /\ orders' = RemoveAt(orders, idx)
                /\ deleted' = deleted \cup {parsed.val}
                /\ resp' = Response(204, NoOrders, ZeroOrder, "")

\* the order routes registered in main
Routes == {"orders", "orderByID", "hideOrder"}

\* mux: the handler of a route, for the methods ordersHandler has no
\* branch for
Serve(route, method, arg) ==
    CASE route = "orders" -> OrdersOther(method, arg)
      [] route = "orderByID" -> OrderByID(method, arg)
      [] route = "hideOrder" -> HideOrderAs(method, arg)

\* a faulty Preflight: no request is taken for a preflight
PreflightNever(method) == FALSE

\* r.Method == http.MethodOptions
Preflight(method) == method = "OPTIONS"

\* withCORS(mux): a preflight is answered here with 204 and no body, any
\* other request goes on to the mux
WithCORS(route, method, arg) ==
    IF Preflight(method)
    THEN /\ req' = [Request("withCORS", method, arg, FALSE) EXCEPT !.route = route]
         /\ resp' = Response(204, NoOrders, ZeroOrder, "")
         /\ hideAgain' = FALSE
         /\ UNCHANGED <<orders, nextOrderID, now, created, deleted>>
         /\ UNCHANGED concVars
    ELSE Serve(route, method, arg)

\* the path id or the query of the requests sent with OPTIONS or PATCH
WrappedArgs == {<<>>, Itoa(1)}

\* Every request passes withCORS; for GET, POST, DELETE and PUT the wrapper
\* only sets response headers, and the disjuncts below are the handlers it
\* passes them to.
Next ==
    \/ \E route \in Routes, method \in {"OPTIONS", "PATCH"}, arg \in WrappedArgs :
          WithCORS(route, method, arg)
    \/ \E username \in Requesters : OrdersGet(username)
    \/ \E body \in Bodies : OrdersPost(body)
    \/ \E method \in Methods, username \in {<<>>, Alice} :
          OrdersOther(method, username)
    \/ \E idStr \in IdStrs : HideOrder(idStr)
    \/ \E method \in Methods, idStr \in IdStrs : OrderByID(method, idStr)

Spec == Init /\ [][Next]_vars

-----------------------------------------------------------------------------
(* ConcSpec: NumProcs requests in flight, each a goroutine of net/http     *)
(* running one handler; a step is one statement that reads or writes the   *)
(* shared state, or the part of a handler that touches none of it.         *)

StoredAlice == Order(1, Alice, MakeSlice(<<>>), 1, FALSE)
StoredBob == Order(2, PaddedBob, MakeSlice(<<P1>>), 2, FALSE)

\* stores the requests may find: empty; two orders; the second of two after
\* the first was deleted
ConcStarts ==
    {[orders |-> <<>>, next |-> 1, deleted |-> {}],
     [orders |-> <<StoredAlice, StoredBob>>, next |-> 3, deleted |-> {}],
     [orders |-> <<StoredBob>>, next |-> 3, deleted |-> {1}]}

ConcBodies ==
    {JObject(JStr(Alice), JNum(1), JAbsent, JAbsent),
     JObject(JStr(Whitespace), JAbsent, JAbsent, JAbsent)}

ConcIdStrs == {<<"x">>, Itoa(1), Itoa(2)}

ConcRequesters == {Alice, Admin}

ConcInit ==
    \E st \in ConcStarts :
        /\ orders = st.orders
        /\ nextOrderID = st.next
        /\ now = st.next
        /\ created = [i \in 1..(st.next - 1) |-> i]
        /\ deleted = st.deleted
        /\ req = Request("none", "GET", <<>>, FALSE)
        /\ resp = Response(0, NoOrders, ZeroOrder, "")
        /\ hideAgain = FALSE
        /\ mu = {}
        /\ pc = [p \in Procs |-> "idle"]
        /\ loc = [p \in Procs |-> NoLocals]

Goto(p, label) == pc' = [pc EXCEPT ![p] = label]

\* GET /api/orders arrives: username := r.URL.Query().Get("username")
StartGet(p, username) ==
    /\ pc[p] = "idle"
    /\ loc' = [loc EXCEPT ![p] = [NoLocals EXCEPT !.handler = "orders",
                                                  !.arg = username]]
    /\ Goto(p, "getLock")
    /\ UNCHANGED <<orders, nextOrderID, now, created, deleted, mu>>
    /\ UNCHANGED seqVars

\* POST /api/orders arrives: decode, validate, normalise; all on locals
StartPost(p, body) ==
    LET dec == Decode(body)
        l   == [NoLocals EXCEPT !.handler = "orders", !.method = "POST"]
    IN  /\ pc[p] = "idle"
        /\ IF dec.err \/ Blank(dec.val.username)
           THEN /\ loc' = [loc EXCEPT ![p] = [l EXCEPT !.arg = dec.val.username,
                                                       !.status = 400]]
                /\ Goto(p, "done")
           ELSE /\ loc' = [loc EXCEPT ![p] = [l EXCEPT !.arg = dec.val.username,
                                                       !.in = NormalizeItems(dec.val)]]
                /\ Goto(p, "postLock")
        /\ UNCHANGED <<orders, nextOrderID, now, created, deleted, mu>>
        /\ UNCHANGED seqVars

\* /api/orders arrives with another method: the default branch
StartOther(p, method) ==
    /\ pc[p] = "idle"
    /\ method \notin {"GET", "POST"}
    /\ loc' = [loc EXCEPT ![p] = [NoLocals EXCEPT !.handler = "orders",
                                                  !.method = method,
                                                  !.status = 405]]
    /\ Goto(p, "done")
    /\ UNCHANGED <<orders, nextOrderID, now, created, deleted, mu>>
    /\ UNCHANGED seqVars

\* /api/hideOrder arrives: id, _ := strconv.Atoi(idStr)
StartHide(p, idStr) ==
    /\ pc[p] = "idle"
    /\ loc' = [loc EXCEPT ![p] = [NoLocals EXCEPT !.handler = "hideOrder",
                                                  !.method = "POST",
                                                  !.arg = idStr,
                                                  !.id = Atoi(idStr).val]]
    /\ Goto(p, "hideLock")
    /\ UNCHANGED <<orders, nextOrderID, now, created, deleted, mu>>
    /\ UNCHANGED seqVars

\* /api/orders/{id} arrives: parse the id, check the method
StartByID(p, method, idStr) ==
    LET parsed == Atoi(idStr)
        l      == [NoLocals EXCEPT !.handler = "orderByID", !.method = method,
                                   !.arg = idStr, !.id = parsed.val]
    IN  /\ pc[p] = "idle"
        /\ IF parsed.err
           THEN loc' = [loc EXCEPT ![p] = [l EXCEPT !.status = 400]] /\ Goto(p, "done")
           ELSE IF method # "DELETE"
           THEN loc' = [loc EXCEPT ![p] = [l EXCEPT !.status = 405]] /\ Goto(p, "done")
           ELSE loc' = [loc EXCEPT ![p] = l] /\ Goto(p, "delLock")
        /\ UNCHANGED <<orders, nextOrderID, now, created, deleted, mu>>
        /\ UNCHANGED seqVars

\* the statement after each ordersMu.Lock()
AfterLock(label) ==
    CASE label = "getLock" -> "getCollect"
      [] label = "postLock" -> "postAssign"
      [] label = "hideLock" -> "hideFind"
      [] label = "delLock" -> "delFind"

\* ordersMu.Lock()
Lock(p) ==
    /\ pc[p] \in {"getLock", "postLock", "hideLock", "delLock"}
    /\ LockFree(mu)
    /\ mu' = {p}
    /\ Goto(p, AfterLock(pc[p]))
    /\ UNCHANGED <<orders, nextOrderID, now, created, deleted, loc>>
    /\ UNCHANGED seqVars

\* GET: the loop over orders
GetCollect(p) ==
    /\ pc[p] = "getCollect"
    /\ loc' = [loc EXCEPT ![p].result = Collect(orders, loc[p].arg, NilSlice)]
    /\ Goto(p, "getEncode")
    /\ UNCHANGED <<orders, nextOrderID, now, created, deleted, mu>>
    /\ UNCHANGED seqVars

\* GET: normalise the result and encode it
GetEncode(p) ==
    /\ pc[p] = "getEncode"
    /\ loc' = [loc EXCEPT ![p].result = NormalizeResult(loc[p].result),
                          ![p].status = 200]
    /\ Goto(p, "unlock")
    /\ UNCHANGED <<orders, nextOrderID, now, created, deleted, mu>>
    /\ UNCHANGED seqVars

\* POST: in.ID = nextOrderID
PostAssign(p) ==
    /\ pc[p] = "postAssign"
    /\ loc' = [loc EXCEPT ![p].in = SetID(loc[p].in, nextOrderID)]
    /\ Goto(p, "postIncr")
    /\ UNCHANGED <<orders, nextOrderID, now, created, deleted, mu>>
    /\ UNCHANGED seqVars

\* POST: nextOrderID++
PostIncr(p) ==
    /\ pc[p] = "postIncr"
    /\ nextOrderID' = Increment(nextOrderID)
    /\ Goto(p, "postAppend")
    /\ UNCHANGED <<orders, now, created, deleted, mu, loc>>
    /\ UNCHANGED seqVars

\* POST: in.CreatedAt = time.Now(); orders = append(orders, in)
PostAppend(p) ==
    LET in == SetCreatedAt(loc[p].in, now)
    IN  /\ pc[p] = "postAppend"
        /\ loc' = [loc EXCEPT ![p].in = in]
        /\ orders' = Append(orders, in)
        /\ created' = Append(created, in.id)
        /\ now' = now + 1
        /\ Goto(p, "postUnlock")
        /\ UNCHANGED <<nextOrderID, deleted, mu>>
        /\ UNCHANGED seqVars

\* a faulty Release: the mutex stays with its holder
ReleaseNot(m) == m

\* ordersMu.Unlock(): the mutex has no holder afterwards
Release(m) == {}

\* POST: ordersMu.Unlock()
PostUnlock(p) ==
    /\ pc[p] = "postUnlock"
    /\ mu' = Release(mu)
    /\ Goto(p, "postRespond")
    /\ UNCHANGED <<orders, nextOrderID, now, created, deleted, loc>>
    /\ UNCHANGED seqVars

\* POST: w.WriteHeader(http.StatusCreated); json.NewEncoder(w).Encode(in)
PostRespond(p) ==
    /\ pc[p] = "postRespond"
    /\ loc' = [loc EXCEPT ![p].status = 201]
    /\ Goto(p, "done")
    /\ UNCHANGED <<orders, nextOrderID, now, created, deleted, mu>>
    /\ UNCHANGED seqVars

\* hide: the loop up to the match
HideFind(p) ==
    LET idx == FindIndex(orders, loc[p].id)
    IN  /\ pc[p] = "hideFind"
        /\ loc' = [loc EXCEPT ![p].idx = idx]
        /\ Goto(p, IF idx = NotFound THEN "hideRespond" ELSE "hideSet")
        /\ UNCHANGED <<orders, nextOrderID, now, created, deleted, mu>>
        /\ UNCHANGED seqVars

\* hide: orders[i].Hidden = true
HideSet(p) ==
    /\ pc[p] = "hideSet"
    /\ orders' = HideAt(orders, loc[p].idx)
    /\ Goto(p, "hideRespond")
    /\ UNCHANGED <<nextOrderID, now, created, deleted, mu, loc>>
    /\ UNCHANGED seqVars

\* hide: w.WriteHeader(http.StatusOK)
HideRespond(p) ==
    /\ pc[p] = "hideRespond"
    /\ loc' = [loc EXCEPT ![p].status = 200]
    /\ Goto(p, "unlock")
    /\ UNCHANGED <<orders, nextOrderID, now, created, deleted, mu>>
    /\ UNCHANGED seqVars

\* delete: the loop that sets idx
DelFind(p) ==
    LET idx == FindIndex(orders, loc[p].id)
    IN  /\ pc[p] = "delFind"
        /\ loc' = [loc EXCEPT ![p].idx = idx]
        /\ Goto(p, IF idx = NotFound THEN "delNotFound" ELSE "delRemove")
        /\ UNCHANGED <<orders, nextOrderID, now, created, deleted, mu>>
        /\ UNCHANGED seqVars

\* delete: http.Error(w, "not found", http.StatusNotFound); return
DelNotFound(p) ==
    /\ pc[p] = "delNotFound"
    /\ loc' = [loc EXCEPT ![p].status = 404]
    /\ Goto(p, "unlock")
    /\ UNCHANGED <<orders, nextOrderID, now, created, deleted, mu>>
    /\ UNCHANGED seqVars

\* delete: orders = append(orders[:idx], orders[idx+1:]...)
DelRemove(p) ==
    /\ pc[p] = "delRemove"
    /\ orders' = RemoveAt(orders, loc[p].idx)
    /\ deleted' = deleted \cup {loc[p].id}
    /\ Goto(p, "delRespond")
    /\ UNCHANGED <<nextOrderID, now, created, mu, loc>>
    /\ UNCHANGED seqVars

\* delete: w.WriteHeader(http.StatusNoContent)
DelRespond(p) ==
    /\ pc[p] = "delRespond"
    /\ loc' = [loc EXCEPT ![p].status = 204]
    /\ Goto(p, "unlock")
    /\ UNCHANGED <<orders, nextOrderID, now, created, deleted, mu>>
    /\ UNCHANGED seqVars

\* the deferred ordersMu.Unlock() of GET, hide and delete
Unlock(p) ==
    /\ pc[p] = "unlock"
    /\ mu' = Release(mu)
    /\ Goto(p, "done")
    /\ UNCHANGED <<orders, nextOrderID, now, created, deleted, loc>>
    /\ UNCHANGED seqVars

\* the steps of the goroutine serving request p, once the request is in
Run(p) ==
    \/ Lock(p)
    \/ GetCollect(p)
    \/ GetEncode(p)
    \/ PostAssign(p)
    \/ PostIncr(p)
    \/ PostAppend(p)
    \/ PostUnlock(p)
    \/ PostRespond(p)
    \/ HideFind(p)
    \/ HideSet(p)
    \/ HideRespond(p)
    \/ DelFind(p)
    \/ DelNotFound(p)
    \/ DelRemove(p)
    \/ DelRespond(p)
    \/ Unlock(p)

ConcNext ==
    \E p \in Procs :
        \/ \E username \in ConcRequesters : StartGet(p, username)
        \/ \E body \in ConcBodies : StartPost(p, body)
        \/ \E method \in {"DELETE", "PUT"} : StartOther(p, method)
        \/ \E idStr \in ConcIdStrs : StartHide(p, idStr)
        \/ \E method \in {"DELETE", "GET"}, idStr \in ConcIdStrs :
              StartByID(p, method, idStr)
        \/ Run(p)

ConcSpec == ConcInit /\ [][ConcNext]_vars

\* ConcSpec under the scheduling of the Go runtime: a goroutine that can
\* take a step is not held back for ever. Whether a request arrives is up to
\* the clients, so the Start steps carry no fairness.
LiveSpec == ConcSpec /\ \A p \in Procs : WF_vars(Run(p))

-----------------------------------------------------------------------------
(* CatSpec: the catalog lister, serveImagesFromFolder, applied to the      *)
(* directories it may find.                                                *)

\* baseURL := "https://zone-out-backend-server.onrender.com"; a string here
\* is the sequence of the pieces it is concatenated from
BaseURL == <<"https://zone-out-backend-server.onrender.com">>

\* an os.DirEntry, as far as the lister looks at it: Name() and IsDir()
DirEntry(name, isDir) == [name |-> name, isDir |-> isDir]

\* the entries a directory may hold, in the order os.ReadDir returns them
Pool ==
    <<DirEntry(<<"a.png">>, FALSE), DirEntry(<<"b">>, TRUE),
      DirEntry(<<"c d.png">>, FALSE), DirEntry(<<"e">>, TRUE),
      DirEntry(<<"f.jpg">>, FALSE)>>

RECURSIVE Listing(_, _)
Listing(S, i) ==
    IF i > Len(Pool) THEN <<>>
    ELSE (IF i \in S THEN <<Pool[i]>> ELSE <<>>) \o Listing(S, i + 1)

\* what os.ReadDir(folderPath) returns: an error, or the entries
Dirs ==
    {[readable |-> FALSE, entries |-> <<>>]}
    \cup {[readable |-> TRUE, entries |-> Listing(S, 1)] :
            S \in {T \in SUBSET (1..Len(Pool)) : Cardinality(T) <= MaxEntries}}

\* the route argument of the category handlers registered in main
Categories == {<<"Keychains">>, <<"Stickers">>}

\* url := baseURL + "/images/" + route + "/" + file.Name()
ImageURL(route, name) == BaseURL \o <<"/images/">> \o route \o <<"/">> \o name

\* a faulty NextID: the id advances on every entry
NextIDAlways(file, id) == id + 1

\* id++ inside `if !file.IsDir()`
NextID(file, id) == IF ~file.isDir THEN id + 1 ELSE id

\* for _, file := range files { if !file.IsDir() { ...append...; id++ } }
RECURSIVE ListFiles(_, _, _, _)
ListFiles(files, route, products, id) ==
    IF files = <<>> THEN products
    ELSE LET file == Head(files)
         IN  ListFiles(Tail(files), route,
                       IF ~file.isDir
                       THEN MakeSlice(Append(products.elems,
                                             Product(id, ImageURL(route, file.name))))
                       ELSE products,
                       NextID(file, id))

CatalogRequest(route, dir) == [handler |-> "category", route |-> route, dir |-> dir]

CatalogResponse(status, products, text) ==
    [status |-> status, products |-> products, text |-> text]

\* serveImagesFromFolder
ServeImages(route, dir) ==
    /\ req' = CatalogRequest(route, dir)
    /\ resp' = IF ~dir.readable
               THEN CatalogResponse(500, NilSlice, "Failed to read images directory")
               ELSE CatalogResponse(200, ListFiles(dir.entries, route, NilSlice, 1), "")
    /\ UNCHANGED <<orders, nextOrderID, now, created, deleted, hideAgain>>
    /\ UNCHANGED concVars

CatNext == \E route \in Categories, dir \in Dirs : ServeImages(route, dir)

CatSpec == ConcInit /\ [][CatNext]_vars

-----------------------------------------------------------------------------
(* Properties of Spec *)

IsGet(r) == r.handler = "orders" /\ r.method = "GET"
IsPost(r) == r.handler = "orders" /\ r.method = "POST"
IsHide(r) == r.handler = "hideOrder"
IsDelete(r) == r.handler = "orderByID" /\ r.method = "DELETE"

\* the numerals a client can put in a path or query for the ids in play
Numerals == 0..(MaxOrders + 1)

\* a numeral for an id below every id the store hands out
MinusOne == <<"-", "1">>

AllSpace(s) == \A i \in 1..Len(s) : s[i] \in Space

StoreUnchanged == orders' = orders /\ nextOrderID' = nextOrderID

\* C1: the ids handed out by the successful Creates are 1, 2, ..., N in the
\* order in which the Creates commit, whatever Hide, Delete and List calls
\* come in between and whatever id the request body carried; the id in the
\* 201 response is the one stored.
C1_IdsAreOneToN ==
    /\ \A i \in 1..Len(created) : created[i] = i
    /\ (IsPost(req) /\ resp.status = 201) =>
          /\ resp.order.id = Len(created)
          /\ orders # <<>> /\ orders[Len(orders)].id = Len(created)

C1_Witness ==
    /\ IsPost(req) /\ resp.status = 201
    /\ created = <<1, 2>>
    /\ deleted = {1}
    /\ Len(orders) = 1

\* C2: the stored ids are strictly increasing with position (hence pairwise
\* distinct), all below nextOrderID, and no id is handed out twice: the ids
\* handed out so far are pairwise distinct and below nextOrderID, and an id
\* whose order was deleted is carried by no stored order.
C2_IdsUniqueIncreasing ==
    /\ \A i, j \in 1..Len(orders) : i < j => orders[i].id < orders[j].id
    /\ \A i \in 1..Len(orders) : orders[i].id < nextOrderID
    /\ \A i, j \in 1..Len(created) : i # j => created[i] # created[j]
    /\ \A i \in 1..Len(created) : created[i] < nextOrderID
    /\ deleted \cap IDs(orders) = {}

C2_Witness ==
    /\ Len(created) = MaxOrders
    /\ deleted # {}
    /\ orders # <<>>
    /\ IsPost(req) /\ resp.status = 201

\* the stored order and the listed one agree, up to the items being listed
\* as an empty sequence where the stored one has none
SameOrder(listed, stored) ==
    /\ listed.id = stored.id
    /\ listed.username = stored.username
    /\ listed.hidden = stored.hidden
    /\ listed.created_at = stored.created_at
    /\ listed.items.elems = stored.items.elems

\* C3: the result of List holds, for requester "admin", every stored order;
\* for any other requester u, exactly the stored orders with username u that
\* are not hidden; nothing else; in storage order.
C3_ListFilter ==
    IsGet(req) =>
        LET r == resp.orders.elems
            u == req.arg
        IN  /\ resp.status = 200
            /\ \A i \in 1..Len(orders) :
                  (\E k \in 1..Len(r) : r[k].id = orders[i].id)
                  <=> (u = Admin \/ (orders[i].username = u /\ ~orders[i].hidden))
            /\ \A k \in 1..Len(r) :
                  \E i \in 1..Len(orders) : SameOrder(r[k], orders[i])
            /\ \A k, l \in 1..Len(r) : k < l =>
                  \E i, j \in 1..Len(orders) :
                      /\ i < j
                      /\ SameOrder(r[k], orders[i])
                      /\ SameOrder(r[l], orders[j])

C3_Witness ==
    /\ IsGet(req) /\ req.arg = Alice
    /\ Len(orders) = 2
    /\ orders[1].username = Alice /\ orders[1].hidden
    /\ orders[2].username = Alice /\ ~orders[2].hidden
    /\ Len(resp.orders.elems) = 1

\* C5: Delete(id) on a store holding an order with that id answers 204, and
\* the store afterwards is the store before without that one order: one
\* shorter, the id gone from List("admin"), the rest unchanged and in order.
C5_DeleteRemovesExactlyOne ==
    [][\A n \in Numerals :
          (IsDelete(req') /\ req'.arg = Itoa(n) /\ n \in IDs(orders)) =>
              /\ resp'.status = 204
              /\ Len(orders') = Len(orders) - 1
              /\ n \notin IDs(ListResult(orders', Admin).elems)
              /\ orders' = SelectSeq(orders, LAMBDA o : o.id # n)
              /\ nextOrderID' = nextOrderID]_vars

C5_Witness ==
    /\ IsDelete(req) /\ req.arg = Itoa(1)
    /\ resp.status = 204
    /\ created = <<1, 2>>
    /\ Len(orders) = 1 /\ orders[1].id = 2

\* C6: Delete(id) for an integer id that no stored order carries answers 404
\* and leaves the sequence and the counter as they were; an id whose Delete
\* once answered 204 is such an id ever after.
C6_DeleteMissingIs404 ==
    /\ [][\A n \in Numerals :
             (IsDelete(req') /\ req'.arg = Itoa(n)) =>
                 /\ n \notin IDs(orders) =>
                       resp'.status = 404 /\ StoreUnchanged
                 /\ n \in deleted => resp'.status = 404]_vars
    /\ [][(IsDelete(req') /\ req'.arg = MinusOne) =>
             resp'.status = 404 /\ StoreUnchanged]_vars

C6_Witness ==
    /\ IsDelete(req) /\ req.arg = Itoa(1)
    /\ resp.status = 404
    /\ 1 \in deleted
    /\ created = <<1, 2>> /\ IDs(orders) = {2}

\* C7: a Create whose body does not parse, or whose username is empty or all
\* whitespace, answers 400 and leaves the sequence and the counter as they
\* were.
C7_RejectedCreateChangesNothing ==
    [][(IsPost(req') /\ (req'.badJSON \/ AllSpace(req'.arg))) =>
          /\ resp'.status = 400
          /\ StoreUnchanged
          /\ created' = created]_vars

C7_Witness ==
    /\ IsPost(req) /\ req.arg = Whitespace
    /\ resp.status = 400
    /\ Len(orders) = 1 /\ nextOrderID = 2

\* C8: every successful Create stores (and returns) the new order with
\* hidden = false, whatever the body carried.
C8_CreateStoresVisible ==
    (IsPost(req) /\ resp.status = 201) =>
        /\ ~resp.order.hidden
        /\ ~orders[Len(orders)].hidden

\* C9: a Hide that directly follows a Hide with the same id parameter
\* changes nothing, and both answer 200.
C9_HideIdempotent ==
    [][(IsHide(req') /\ hideAgain') =>
          /\ StoreUnchanged
          /\ resp.status = 200
          /\ resp'.status = 200]_vars

C9_Witness ==
    /\ IsHide(req) /\ hideAgain /\ req.arg = Itoa(1)
    /\ Len(orders) = 2
    /\ orders[1].id = 1 /\ orders[1].hidden
    /\ ~orders[2].hidden

\* C10: a Hide whose id parameter is missing, is no numeral, or names an id
\* that no stored order carries answers 200 and leaves the sequence and the
\* counter as they were.
C10_HideMissingIsNoOp ==
    [][(/\ IsHide(req')
        /\ \/ req'.arg \in {<<>>, <<"x">>, MinusOne}
           \/ \E n \in Numerals : req'.arg = Itoa(n) /\ n \notin IDs(orders)) =>
          /\ resp'.status = 200
          /\ StoreUnchanged]_vars

C10_Witness ==
    /\ IsHide(req) /\ req.arg = <<"x">>
    /\ resp.status = 200
    /\ Len(orders) = 2
    /\ \A i \in 1..Len(orders) : ~orders[i].hidden

-----------------------------------------------------------------------------
(* Properties of ConcSpec *)

\* the statements that read or write orders or nextOrderID, and the
\* statements between them and the Unlock
Critical ==
    {"getCollect", "getEncode", "postAssign", "postIncr", "postAppend",
     "postUnlock", "hideFind", "hideSet", "hideRespond", "delFind",
     "delNotFound", "delRemove", "delRespond", "unlock"}

Responded(p, status) == pc[p] \in {"done", "unlock"} /\ loc[p].status = status

Range(f) == {f[i] : i \in DOMAIN f}

\* a Create that has taken its id
HasID(p) ==
    /\ loc[p].handler = "orders" /\ loc[p].method = "POST"
    /\ pc[p] \in {"postIncr", "postAppend", "postUnlock", "postRespond", "done"}
    /\ loc[p].status # 400

\* every request standing at a statement of a critical section holds the
\* lock (so at most one does), and no update is lost: the stored ids are
\* pairwise distinct, they are the ids handed out less the ids deleted, the
\* counter has advanced once per id taken, no two Creates have taken the
\* same id, and a Create that has answered 201 answered with the id under
\* which its order is stored, unless a Delete has removed it since
C4_Inv ==
    /\ \A p \in Procs : pc[p] \in Critical => mu = {p}
    /\ \A i, j \in 1..Len(orders) : i # j => orders[i].id # orders[j].id
    /\ \A i, j \in 1..Len(created) : i # j => created[i] # created[j]
    /\ IDs(orders) = Range(created) \ deleted
    /\ nextOrderID = Len(created) + 1 + Cardinality({p \in Procs : pc[p] = "postAppend"})
    /\ \A p, q \in Procs : (p # q /\ HasID(p) /\ HasID(q)) => loc[p].in.id # loc[q].in.id
    /\ \A p \in Procs : Responded(p, 201) =>
          /\ loc[p].in.id \in Range(created)
          /\ loc[p].in.id \in IDs(orders) \cup deleted
          /\ \A i \in 1..Len(orders) : orders[i].id = loc[p].in.id =>
                /\ orders[i].username = loc[p].in.username
                /\ orders[i].items = loc[p].in.items
                /\ orders[i].created_at = loc[p].in.created_at

\* a step that changes orders or nextOrderID is a step of the request that
\* holds the lock; a Create's append adds its one order at the end and
\* advances the counter by one in all; the splice of a Delete removes the
\* order with the targeted id and no other; the write of a Hide sets the
\* flag of the order with the targeted id and alters no other
C4_Step ==
    /\ (orders' # orders \/ nextOrderID' # nextOrderID) =>
          \E p \in Procs : mu = {p} /\ pc[p] \in Critical /\ pc'[p] # pc[p]
    /\ \A p \in Procs :
          /\ (pc[p] = "postIncr" /\ pc'[p] # pc[p]) =>
                nextOrderID' = loc[p].in.id + 1
          /\ (pc[p] = "postAppend" /\ pc'[p] # pc[p]) =>
                /\ Len(orders') = Len(orders) + 1
                /\ SubSeq(orders', 1, Len(orders)) = orders
                /\ orders'[Len(orders')].id = loc[p].in.id
                /\ nextOrderID = loc[p].in.id + 1
          /\ (pc[p] = "delRemove" /\ pc'[p] # pc[p]) =>
                /\ loc[p].id \in IDs(orders)
                /\ orders' = SelectSeq(orders, LAMBDA o : o.id # loc[p].id)
          /\ (pc[p] = "hideSet" /\ pc'[p] # pc[p]) =>
                /\ loc[p].id \in IDs(orders)
                /\ Len(orders') = Len(orders)
                /\ \A i \in 1..Len(orders) :
                      orders'[i] = IF orders[i].id = loc[p].id
                                   THEN [orders[i] EXCEPT !.hidden = TRUE]
                                   ELSE orders[i]

\* C4: with several Create, Hide, Delete and List requests in flight, every
\* read and write of orders and nextOrderID is made by the request holding
\* ordersMu, and no update is lost: k successful Creates add k orders with k
\* distinct ids, each answered with the id stored, and a Delete or Hide
\* removes or alters only the order with the targeted id.
C4_NoLostUpdate == []C4_Inv /\ [][C4_Step]_vars

\* two Creates in flight together have both answered 201
C4_Witness ==
    /\ orders # <<>>
    /\ \E p, q \in Procs :
          /\ p # q
          /\ Responded(p, 201) /\ pc[p] = "done"
          /\ Responded(q, 201) /\ pc[q] = "done"
          /\ loc[p].in.id + 1 = loc[q].in.id
          /\ loc[q].in.id + 1 = nextOrderID

-----------------------------------------------------------------------------
(* Further properties of Spec *)

\* C11: the list that GET encodes is never nil, also when no order matches,
\* and no order in it has nil items, also for orders submitted without items.
C11_ListNeverNull ==
    IsGet(req) =>
        /\ ~resp.orders.isNil
        /\ \A k \in 1..Len(resp.orders.elems) : ~resp.orders.elems[k].items.isNil

C11_Witness ==
    /\ IsGet(req) /\ req.arg = Bob
    /\ resp.orders = MakeSlice(<<>>)
    /\ Len(orders) = 2
    /\ orders[1].items = MakeSlice(<<>>)

\* C12: a Create that succeeds on a body without items, or with items null,
\* stores the order with items the empty sequence, not nil, and answers with
\* that stored order.
C12_EmptyItemsNormalized ==
    (IsPost(req) /\ resp.status = 201 /\ req.items \in {"absent", "null"}) =>
        /\ resp.order.items = MakeSlice(<<>>)
        /\ orders # <<>>
        /\ orders[Len(orders)] = resp.order

C12_Witness ==
    /\ IsPost(req) /\ resp.status = 201 /\ req.items = "null"
    /\ req.arg = PaddedBob
    /\ resp.order.id = 2
    /\ resp.order.items = MakeSlice(<<>>)

-----------------------------------------------------------------------------
(* Further properties of ConcSpec *)

\* C14: no handler writes its response while it holds ordersMu: a request
\* whose status line is written does not hold the lock.
C14_NoResponseUnderLock ==
    \A p \in Procs : loc[p].status # 0 => p \notin mu

\* the path ids that are decimal numerals
IsInteger(s) == s \in {Itoa(n) : n \in Numerals} \cup {MinusOne}

\* the request of p is answered with status, and p has not been at the lock
Refused(p, status) ==
    /\ pc[p] = "done"
    /\ loc[p].status = status
    /\ p \notin mu

C18_Refusals ==
    \A p \in Procs :
        /\ (loc[p].handler = "orderByID" /\ ~IsInteger(loc[p].arg))
               => Refused(p, 400)
        /\ (loc[p].handler = "orderByID" /\ IsInteger(loc[p].arg)
                                         /\ loc[p].method # "DELETE")
               => Refused(p, 405)
        /\ (loc[p].handler = "orders" /\ loc[p].method \notin {"GET", "POST"})
               => Refused(p, 405)

\* C18: orderByIDHandler answers 400 to a path id that is no integer,
\* whatever the method, and 405 to an integer id with a method other than
\* DELETE; ordersHandler answers 405 to a method other than GET and POST.
\* Such a request returns in the step in which it arrives: it never waits
\* for or holds ordersMu, and the store is as it was.
C18_ValidateBeforeLock ==
    /\ []C18_Refusals
    /\ [][\A p \in Procs :
             (/\ pc[p] = "idle"
              /\ loc'[p].handler \in {"orders", "orderByID"}
              /\ Refused(p, 400)' \/ Refused(p, 405)')
                 => /\ StoreUnchanged
                    /\ mu' = mu]_vars

C18_Witness ==
    \E p, q \in Procs :
        /\ loc[p].handler = "orderByID" /\ loc[p].method = "GET"
        /\ loc[p].arg = <<"x">> /\ Refused(p, 400)
        /\ pc[q] \in Critical /\ q \in mu

-----------------------------------------------------------------------------
(* Properties of CatSpec *)

IsFile(e) == ~e.isDir

\* C15: for a readable directory the lister answers with one Product per
\* entry that is no directory, in the order of the entries, numbered 1..N
\* without gaps, each with the URL base + "/images/" + category + "/" + name;
\* this holds of every call, and a call changes nothing of the order store.
C15_Products ==
    (req.handler = "category" /\ req.dir.readable) =>
        LET files == SelectSeq(req.dir.entries, IsFile)
            r     == resp.products.elems
        IN  /\ resp.status = 200
            /\ Len(r) = Len(files)
            /\ \A k \in 1..Len(r) :
                  /\ r[k].id = k
                  /\ r[k].url = BaseURL \o <<"/images/">> \o req.route
                                \o <<"/">> \o files[k].name

C15_CatalogLister ==
    /\ []C15_Products
    /\ [][req'.handler = "category" =>
             /\ StoreUnchanged
             /\ UNCHANGED <<now, created, deleted, mu>>]_vars

C15_Witness ==
    /\ req.handler = "category" /\ req.dir.readable
    /\ Len(req.dir.entries) = 3
    /\ IsFile(req.dir.entries[1])
    /\ ~IsFile(req.dir.entries[2])
    /\ IsFile(req.dir.entries[3])
    /\ Len(resp.products.elems) = 2
    /\ resp.products.elems[2].id = 2
    /\ orders # <<>>

-----------------------------------------------------------------------------
(* Further properties of Spec *)

\* C16: Hide is one-directional and changes nothing but the flag: an order
\* that is hidden is still hidden after every step that keeps it in the
\* store, and a Hide request keeps nextOrderID, the length and the order of
\* the sequence, the id, username, items and created_at of every order, and
\* the whole of every order whose id is not the requested one.
C16_HideOneWay ==
    [][/\ \A i \in 1..Len(orders) : \A j \in 1..Len(orders') :
             (orders[i].hidden /\ orders'[j].id = orders[i].id)
                 => orders'[j].hidden
       /\ IsHide(req') =>
             /\ nextOrderID' = nextOrderID
             /\ Len(orders') = Len(orders)
             /\ \A i \in 1..Len(orders) :
                   /\ orders'[i] = [orders[i] EXCEPT !.hidden = orders'[i].hidden]
                   /\ orders[i].id # Atoi(req'.arg).val => orders'[i] = orders[i]
      ]_vars

C16_Witness ==
    /\ IsHide(req) /\ req.arg = Itoa(1)
    /\ Len(orders) = 2
    /\ orders[1].id = 1 /\ orders[1].hidden
    /\ orders[1].items # MakeSlice(<<>>)
    /\ orders[2].id = 2 /\ ~orders[2].hidden

-----------------------------------------------------------------------------
(* Properties of LiveSpec *)

\* a request that has arrived and has not yet returned
InFlight(p) == pc[p] \notin {"idle", "done"}

C17_LockDiscipline ==
    /\ \A p \in Procs : p \in mu <=> pc[p] \in Critical
    /\ Cardinality(mu) <= 1
    /\ (\A p \in Procs : ~InFlight(p)) => mu = {}
    /\ (\E p \in Procs : InFlight(p)) => \E q \in Procs : ENABLED Run(q)

\* C17: a request holds ordersMu exactly from its Lock to its one Unlock,
\* on every path of List, Create, Hide and Delete; a request that has
\* returned holds nothing; while a request is in flight some request can
\* take a step; and under fair scheduling every request that has arrived
\* eventually has sent its response and returned, the lock released.
C17_TerminatesAndReleases ==
    /\ []C17_LockDiscipline
    /\ \A p \in Procs :
          InFlight(p) ~> (pc[p] = "done" /\ loc[p].status # 0 /\ p \notin mu)

C17_Witness ==
    /\ \A p \in Procs : pc[p] = "done"
    /\ mu = {}
    /\ \E p \in Procs : loc[p].handler = "orderByID" /\ loc[p].status = 404
    /\ \E p \in Procs : /\ loc[p].handler = "hideOrder" /\ loc[p].status = 200
                        /\ loc[p].idx = NotFound

\* C19: a request with method OPTIONS, to whichever order route, is
\* answered by the CORS wrapper with 204 and is not handed to the handler
\* of the route: the order sequence and nextOrderID are as before, and on
\* the hideOrder route no order is hidden.
C19_PreflightStopsAtWrapper ==
    [][req'.method = "OPTIONS" =>
          /\ req'.handler = "withCORS"
          /\ resp'.status = 204
          /\ resp'.orders = NoOrders /\ resp'.order = ZeroOrder
          /\ StoreUnchanged]_vars

C19_Witness ==
    /\ req.method = "OPTIONS" /\ req.route = "hideOrder" /\ req.arg = Itoa(1)
    /\ resp.status = 204
    /\ orders # <<>>
    /\ orders[1].id = 1 /\ ~orders[1].hidden

=============================================================================
